---------------------------- MODULE Spec2Model ----------------------------
(***************************************************************************)
(* The iframe bridge of the splat editor (src/src/iframe-integration.ts):  *)
(* embedding detection, the Submit/Cancel controls, the export pipeline    *)
(* and the router of the parent's messages.                                *)
(*                                                                         *)
(* JavaScript runs every handler to completion up to its next await on a   *)
(* host or browser operation, so one action is one such run: from the      *)
(* event (a click, a message, the settling of an awaited host call) to the *)
(* next suspension, the catch blocks it runs into included.                *)
(*                                                                         *)
(* A nullable value is <<>> (null) or <<v>>.  A file name is the sequence  *)
(* of its characters.                                                      *)
(***************************************************************************)
EXTENDS Integers, Sequences, FiniteSets, TLC

(* ------------------------------ bounds --------------------------------- *)

\* Events the environment raises: clicks on the two buttons and messages the
\* parent delivers to the window.
MaxEvents == 2

\* File descriptors the parent sends in all, over its supersplat:import
\* messages.
MaxFiles == 4

\* Tokens a stored file name is built of (file-name derivation).
MaxNameParts == 3

(* ------------------------------ values --------------------------------- *)

Null == <<>>

Some(v) == <<v>>

Str_ply == <<".", "p", "l", "y">>

Str_PLY == <<".", "P", "L", "Y">>

Str_compressed == <<".", "c", "o", "m", "p", "r", "e", "s", "s", "e", "d">>

Str_splat == <<".", "s", "p", "l", "a", "t">>

Str_model == <<"m", "o", "d", "e", "l">>

\* 'edited.ply', the name used when the first splat has none.
DefaultFilename == <<"e", "d", "i", "t", "e", "d">> \o Str_ply

\* '.compressed.ply'
CompressedExt == Str_compressed \o Str_ply

(* ------------------------ file-name derivation ------------------------- *)

UpperCase == <<"A", "B", "C", "D", "E", "F", "G", "H", "I", "J", "K", "L", "M",
               "N", "O", "P", "Q", "R", "S", "T", "U", "V", "W", "X", "Y", "Z">>

LowerCase == <<"a", "b", "c", "d", "e", "f", "g", "h", "i", "j", "k", "l", "m",
               "n", "o", "p", "q", "r", "s", "t", "u", "v", "w", "x", "y", "z">>

\* Case folding of the regular expression's i flag.
Fold(c) ==
    IF \E i \in 1..Len(UpperCase) : UpperCase[i] = c
    THEN LowerCase[CHOOSE i \in 1..Len(UpperCase) : UpperCase[i] = c]
    ELSE c

\* String.prototype.includes
Includes(s, t) ==
    \E i \in 1..(Len(s) - Len(t) + 1) : SubSeq(s, i, i + Len(t) - 1) = t

\* /\.ply$/i matches s
EndsWithPly(s) ==
    /\ Len(s) >= Len(Str_ply)
    /\ \A k \in 1..Len(Str_ply) :
          Fold(s[Len(s) - Len(Str_ply) + k]) = Str_ply[k]

\* filename.replace(/\.ply$/i, '.compressed.ply')
ReplacePlyExt(s) ==
    IF EndsWithPly(s)
    THEN SubSeq(s, 1, Len(s) - Len(Str_ply)) \o CompressedExt
    ELSE s

\* The derivation without its includes('.compressed.ply') test.
MutExportFilename(stored) ==
    LET filename == IF stored = Null THEN DefaultFilename ELSE stored
    IN  ReplacePlyExt(filename)

\* The file name of the export, from the first splat's stored name (Null or
\* empty: absent).
ExportFilename(stored) ==
    LET filename == IF stored = Null THEN DefaultFilename ELSE stored
    IN  IF ~Includes(filename, CompressedExt)
        THEN ReplacePlyExt(filename)
        ELSE filename

NameTokens == {Str_model, Str_ply, Str_PLY, Str_compressed, Str_splat}

RECURSIVE NamesOf(_)
NamesOf(n) ==
    IF n = 0 THEN {<<>>}
    ELSE LET shorter == NamesOf(n - 1)
         IN  shorter \cup {s \o t : s \in shorter, t \in NameTokens}

\* The stored names the derivation is applied to.
StoredNames == NamesOf(MaxNameParts)

(* ------------------------------- state --------------------------------- *)

VARIABLES
    win,          \* the window: self, top, and whether reading top raises
    initPc,       \* position of initIframeIntegration
    embedded,     \* what isInIframe returned
    dom,          \* ids of the buttons appended to document.body, in order
    submit,       \* the Submit button: id, textContent, disabled
    cancel,       \* the Cancel button
    handlers,     \* the registered event listeners
    outbox,       \* messages posted to window.parent, in order
    scene,        \* the splats of the scene (events.invoke('scene.splats'))
    exports,      \* the performExport calls, by order of start
    imports,      \* the supersplat:import messages being handled, by arrival
    importCalls,  \* the calls of events.invoke('import', [fileData]), in order
    eventCount,   \* clicks and delivered messages so far
    fnPc,         \* file-name derivation: position
    fnIn,         \* file-name derivation: the stored name
    fnOut         \* file-name derivation: the names derived so far

vars == <<win, initPc, embedded, dom, submit, cancel, handlers, outbox, scene,
          exports, imports, importCalls, eventCount, fnPc, fnIn, fnOut>>

bridgeVars == <<win, initPc, embedded, dom, submit, cancel, handlers, outbox,
                scene, exports, imports, importCalls, eventCount>>

fnVars == <<fnPc, fnIn, fnOut>>

(* ------------------------------ messages ------------------------------- *)

\* A message posted to the parent.  src names the handler run that posted it
\* (kind "init", "cancel", "export" or "import", and its index).
Message(type, data, error, kind, id) ==
    [type |-> type, data |-> data, error |-> error,
     src |-> [kind |-> kind, id |-> id]]

\* The two ready messages in the other order.
MutReadyMessages ==
    << Message("supersplat:ready", Null, Null, "init", 0),
       Message("splat-editor-ready", Null, Null, "init", 0) >>

ReadyMessages ==
    << Message("splat-editor-ready", Null, Null, "init", 0),
       Message("supersplat:ready", Null, Null, "init", 0) >>

CancelMessage == Message("splat-editor-cancel", Null, Null, "cancel", 0)

\* The error text of a failed host call (error?.message || String(error)).
HostErrorText == "host error"

ImportErrorMessage(id) ==
    Message("supersplat:import:error", Null, Some(HostErrorText), "import", id)

(* ------------------------- embedding detector -------------------------- *)

WindowCases ==
    { [self |-> "editor", top |-> "editor", topAccess |-> "ok"],
      [self |-> "editor", top |-> "parent", topAccess |-> "ok"],
      [self |-> "editor", top |-> "parent", topAccess |-> "SecurityError"] }

\* The catch block returning false.
MutIsInIframe(w) ==
    IF w.topAccess = "SecurityError"
    THEN FALSE
    ELSE w.self # w.top

isInIframe(w) ==
    IF w.topAccess = "SecurityError"
    THEN TRUE
    ELSE w.self # w.top

(* ------------------------------ controls ------------------------------- *)

NoButton == [id |-> "", textContent |-> "", disabled |-> FALSE]

\* The two buttons as created, and the order they are appended in.
createIframeControls ==
    [submit |-> [id |-> "submit-splat-button", textContent |-> "Submit",
                 disabled |-> FALSE],
     cancel |-> [id |-> "cancel-splat-button", textContent |-> "Cancel",
                 disabled |-> FALSE],
     appended |-> <<"cancel-splat-button", "submit-splat-button">>]

\* The listeners initIframeIntegration registers.
RegisteredHandlers == {"cancel.click", "submit.click", "window.message"}

\* No synchronous code is running: the browser can dispatch an event.
EventLoopFree == initPc \in {"done", "skipped"}

(* --------------------------- export pipeline --------------------------- *)

\* What the host's camera returns.
HostPose == [position |-> <<1, 2, 3>>, target |-> <<0, 0, 0>>, fov |-> 60]

\* A performExport call at its start.
NewExport(trigger, options) ==
    [trigger |-> trigger,
     includeThumbnail |-> options.includeThumbnail,
     includeCameraPose |-> options.includeCameraPose,
     pc |-> "start",
     calls |-> <<>>,        \* host and browser operations invoked, in order
     cameraPose |-> Null,
     rendered |-> Null,     \* the scene the returned pixels show
     thumbnail |-> Null,
     splats |-> Null,       \* what scene.splats returned
     serialized |-> "",     \* how the serializer settled
     plyFile |-> Null,
     filename |-> Null,
     failedAt |-> "",
     error |-> Null]

\* The export throws (or one of its helpers rejects) with this text.
Failed(rec, step, text) ==
    [rec EXCEPT !.pc = "failed", !.failedAt = step, !.error = Some(text)]

\* getCameraPose: the operations it invokes and what it returns.
getCameraPose(poseOut, fovOut) ==
    [calls |-> IF poseOut = "pose"
               THEN <<"camera.getPose", "camera.fov">>
               ELSE <<"camera.getPose">>,
     pose  |-> IF poseOut = "pose" /\ fovOut = "value"
               THEN Some([position |-> HostPose.position,
                          target |-> HostPose.target,
                          fov |-> HostPose.fov])
               ELSE Null]

\* exportPly without its check of splats.length.
MutExportPlyBegin(rec, sc) ==
    [rec EXCEPT !.calls = @ \o <<"scene.splats", "serializePlyCompressed">>,
                !.splats = Some(sc),
                !.pc = "serialize"]

\* exportPly up to its await of the serializer.
exportPlyBegin(rec, sc) ==
    LET read == [rec EXCEPT !.calls = Append(@, "scene.splats"),
                            !.splats = Some(sc)]
    IN  IF Len(sc) = 0
        THEN Failed(read, "PLY", "Failed to export PLY")
        ELSE [read EXCEPT !.calls = Append(@, "serializePlyCompressed"),
                          !.pc = "serialize"]

\* exportPly after the serializer settled, and the rest of performExport.
exportPlyEnd(rec, serializeOut) ==
    LET settled == [rec EXCEPT !.serialized = serializeOut]
    IN  IF serializeOut = "written"
        THEN [settled EXCEPT
                 !.pc = "done",
                 !.plyFile = Some(rec.splats[1]),
                 !.filename = Some(ExportFilename(rec.splats[1][1].filename))]
        ELSE Failed(settled, "PLY", "Failed to export PLY")

\* performExport going on with a null camera pose instead of throwing.
MutPerformExport(trigger, options, poseOut, fovOut, sc) ==
    LET new  == NewExport(trigger, options)
        got  == getCameraPose(poseOut, fovOut)
        pose == IF options.includeCameraPose
                THEN [new EXCEPT !.calls = @ \o got.calls,
                                 !.cameraPose = got.pose]
                ELSE new
    IN  IF options.includeThumbnail
        THEN [pose EXCEPT !.calls = Append(@, "render.offscreen"),
                          !.pc = "render"]
        ELSE exportPlyBegin(pose, sc)

\* performExport starting the thumbnail and the PLY export together (as with
\* Promise.all) instead of awaiting one after the other.
MutPerformExportConcurrent(trigger, options, poseOut, fovOut, sc) ==
    LET new  == NewExport(trigger, options)
        got  == getCameraPose(poseOut, fovOut)
        pose == IF options.includeCameraPose
                THEN [new EXCEPT !.calls = @ \o got.calls,
                                 !.cameraPose = got.pose]
                ELSE new
    IN  IF options.includeCameraPose /\ pose.cameraPose = Null
        THEN Failed(pose, "camera pose", "Failed to capture camera pose")
        ELSE IF options.includeThumbnail
        THEN [pose EXCEPT !.calls = @ \o <<"render.offscreen", "scene.splats">>,
                          !.splats = Some(sc),
                          !.pc = "render"]
        ELSE exportPlyBegin(pose, sc)

\* performExport from its call to its first suspension.
performExport(trigger, options, poseOut, fovOut, sc) ==
    LET new  == NewExport(trigger, options)
        got  == getCameraPose(poseOut, fovOut)
        pose == IF options.includeCameraPose
                THEN [new EXCEPT !.calls = @ \o got.calls,
                                 !.cameraPose = got.pose]
                ELSE new
    IN  IF options.includeCameraPose /\ pose.cameraPose = Null
        THEN Failed(pose, "camera pose", "Failed to capture camera pose")
        ELSE IF options.includeThumbnail
        THEN [pose EXCEPT !.calls = Append(@, "render.offscreen"),
                          !.pc = "render"]
        ELSE exportPlyBegin(pose, sc)

\* captureThumbnail after render.offscreen settled, up to canvas.toBlob.
captureThumbnailRendered(rec, renderOut, canvasOut, sc) ==
    IF renderOut # "pixels"
    THEN Failed(rec, "thumbnail", "Failed to capture thumbnail")
    ELSE LET shown == [rec EXCEPT !.rendered = Some(sc)]
         IN  CASE canvasOut = "context" ->
                    [shown EXCEPT !.calls = Append(@, "canvas.toBlob"),
                                  !.pc = "encode"]
               [] canvasOut = "null" ->
                    Failed(shown, "thumbnail", "Failed to capture thumbnail")
               [] OTHER ->
                    Failed(shown, "thumbnail", HostErrorText)

\* captureThumbnail after toBlob called back, and performExport up to the
\* serializer.
captureThumbnailEncoded(rec, blobOut, sc) ==
    IF blobOut = "blob"
    THEN exportPlyBegin([rec EXCEPT !.thumbnail = rec.rendered], sc)
    ELSE Failed(rec, "thumbnail", "Failed to capture thumbnail")

SubmitMessage(rec, id) ==
    Message("splat-editor-submit",
            Some([thumbnail |-> rec.thumbnail,
                  plyFile |-> rec.plyFile[1],
                  filename |-> rec.filename[1],
                  cameraPose |-> rec.cameraPose]),
            Null, "export", id)

ErrorMessage(rec, id) ==
    Message("splat-editor-error", Null, rec.error, "export", id)

\* The auto-export handler without its catch block: a failed auto-export
\* posts nothing.
MutPostedNoAutoCatch(rec, id) ==
    CASE rec.pc = "done" -> <<SubmitMessage(rec, id)>>
      [] rec.pc = "failed" /\ rec.trigger = "submit" -> <<ErrorMessage(rec, id)>>
      [] OTHER -> <<>>

\* What a run of an export posts when it ends: performExport's submit
\* message, or the error message of the catch block of its caller.
Posted(rec, id) ==
    CASE rec.pc = "done"   -> <<SubmitMessage(rec, id)>>
      [] rec.pc = "failed" -> <<ErrorMessage(rec, id)>>
      [] OTHER             -> <<>>

\* The controls restored in a finally block: after a success too.
MutRestoresAlways(rec) ==
    rec.trigger = "submit" /\ rec.pc \in {"done", "failed"}

\* The controls restored by the catch block of either handler.
MutRestoresAnyTrigger(rec) ==
    rec.pc = "failed"

\* The catch block of the Submit handler re-enables the controls; the
\* auto-export handler has no controls to restore.
RestoresControls(rec) ==
    rec.trigger = "submit" /\ rec.pc = "failed"

SubmitOptions == [includeThumbnail |-> TRUE, includeCameraPose |-> TRUE]

\* The auto-export handler calling performExport() with its defaults.
MutAutoExportOptions == [includeThumbnail |-> TRUE, includeCameraPose |-> TRUE]

AutoExportOptions == [includeThumbnail |-> FALSE, includeCameraPose |-> FALSE]

(* ------------------------------- Init ---------------------------------- *)

\* The scene the editor holds when the bridge starts: nothing, or a splat the
\* editor loaded itself.
InitialScenes == {<<>>, <<[filename |-> Str_model \o Str_ply]>>}

BridgeInit ==
    /\ win \in WindowCases
    /\ initPc = "start"
    /\ embedded = FALSE
    /\ dom = <<>>
    /\ submit = NoButton
    /\ cancel = NoButton
    /\ handlers = {}
    /\ outbox = <<>>
    /\ scene \in InitialScenes
    /\ exports = <<>>
    /\ imports = <<>>
    /\ importCalls = <<>>
    /\ eventCount = 0

Init ==
    /\ BridgeInit
    /\ fnPc = "unused"
    /\ fnIn = <<>>
    /\ fnOut = <<>>

(* ----------------------- initIframeIntegration ------------------------- *)

\* Initialization without its early return.
MutInitDetect ==
    /\ initPc = "start"
    /\ embedded' = isInIframe(win)
    /\ initPc' = "detected"
    /\ UNCHANGED <<win, dom, submit, cancel, handlers, outbox, scene, exports,
                   imports, importCalls, eventCount, fnVars>>

\* if (!isInIframe()) return;
InitDetect ==
    /\ initPc = "start"
    /\ embedded' = isInIframe(win)
    /\ initPc' = IF isInIframe(win) THEN "detected" ELSE "skipped"
    /\ UNCHANGED <<win, dom, submit, cancel, handlers, outbox, scene, exports,
                   imports, importCalls, eventCount, fnVars>>

\* const { submit, cancel } = createIframeControls(events, scene);
InitControls ==
    /\ initPc = "detected"
    /\ submit' = createIframeControls.submit
    /\ cancel' = createIframeControls.cancel
    /\ dom' = dom \o createIframeControls.appended
    /\ initPc' = "controls"
    /\ UNCHANGED <<win, embedded, handlers, outbox, scene, exports, imports,
                   importCalls, eventCount, fnVars>>

\* cancel.addEventListener, submit.addEventListener, window.addEventListener
InitHandlers ==
    /\ initPc = "controls"
    /\ handlers' = handlers \cup RegisteredHandlers
    /\ initPc' = "listening"
    /\ UNCHANGED <<win, embedded, dom, submit, cancel, outbox, scene, exports,
                   imports, importCalls, eventCount, fnVars>>

\* The two ready messages, one postMessage at a time.
InitReady ==
    /\ initPc \in {"listening", "announced"}
    /\ outbox' = Append(outbox, IF initPc = "listening"
                                THEN ReadyMessages[1]
                                ELSE ReadyMessages[2])
    /\ initPc' = IF initPc = "listening" THEN "announced" ELSE "done"
    /\ UNCHANGED <<win, embedded, dom, submit, cancel, handlers, scene,
                   exports, imports, importCalls, eventCount, fnVars>>

(* ------------------------------- clicks -------------------------------- *)

\* A disabled button dispatches no click event.
CanClick(button, listener) ==
    /\ EventLoopFree
    /\ listener \in handlers
    /\ button.id # ""
    /\ ~button.disabled
    /\ eventCount < MaxEvents

CancelClick ==
    /\ CanClick(cancel, "cancel.click")
    /\ eventCount' = eventCount + 1
    /\ outbox' = Append(outbox, CancelMessage)
    /\ UNCHANGED <<win, initPc, embedded, dom, submit, cancel, handlers, scene,
                   exports, imports, importCalls, fnVars>>

\* The catch block forgets submit.textContent = 'Submit'.
MutSubmitAfterKeepsLabel(rec, s) ==
    IF RestoresControls(rec)
    THEN [s EXCEPT !.disabled = FALSE]
    ELSE s

\* The Submit button s and the Cancel button c after a run that left the
\* export at rec.
SubmitAfter(rec, s) ==
    IF RestoresControls(rec)
    THEN [s EXCEPT !.disabled = FALSE, !.textContent = "Submit"]
    ELSE s

\* The catch block forgets cancel.disabled = false.
MutCancelAfter(rec, c) == c

CancelAfter(rec, c) ==
    IF RestoresControls(rec)
    THEN [c EXCEPT !.disabled = FALSE]
    ELSE c

\* The Submit handler leaving Cancel enabled while the export runs.
MutSubmitClickCancelEnabled ==
    /\ CanClick(submit, "submit.click")
    /\ eventCount' = eventCount + 1
    /\ \E poseOut \in {"pose", "null", "throws"}, fovOut \in {"value", "throws"} :
          LET rec == performExport("submit", SubmitOptions, poseOut, fovOut, scene)
              id  == Len(exports) + 1
          IN  /\ exports' = Append(exports, rec)
              /\ outbox' = outbox \o Posted(rec, id)
              /\ submit' = SubmitAfter(rec, [submit EXCEPT
                                                !.disabled = TRUE,
                                                !.textContent = "Processing..."])
              /\ cancel' = CancelAfter(rec, cancel)
    /\ UNCHANGED <<win, initPc, embedded, dom, handlers, scene, imports,
                   importCalls, fnVars>>

\* The Submit handler leaving Submit enabled while the export runs.
MutSubmitClickSubmitEnabled ==
    /\ CanClick(submit, "submit.click")
    /\ eventCount' = eventCount + 1
    /\ \E poseOut \in {"pose", "null", "throws"}, fovOut \in {"value", "throws"} :
          LET rec == performExport("submit", SubmitOptions, poseOut, fovOut, scene)
              id  == Len(exports) + 1
          IN  /\ exports' = Append(exports, rec)
              /\ outbox' = outbox \o Posted(rec, id)
              /\ submit' = SubmitAfter(rec, [submit EXCEPT
                                                !.textContent = "Processing..."])
              /\ cancel' = CancelAfter(rec, [cancel EXCEPT !.disabled = TRUE])
    /\ UNCHANGED <<win, initPc, embedded, dom, handlers, scene, imports,
                   importCalls, fnVars>>

\* The Submit handler up to the first suspension of performExport (or to its
\* end, when the camera pose fails).
SubmitClick ==
    /\ CanClick(submit, "submit.click")
    /\ eventCount' = eventCount + 1
    /\ \E poseOut \in {"pose", "null", "throws"}, fovOut \in {"value", "throws"} :
          LET rec == performExport("submit", SubmitOptions, poseOut, fovOut, scene)
              id  == Len(exports) + 1
          IN  /\ exports' = Append(exports, rec)
              /\ outbox' = outbox \o Posted(rec, id)
              /\ submit' = SubmitAfter(rec, [submit EXCEPT
                                                !.disabled = TRUE,
                                                !.textContent = "Processing..."])
              /\ cancel' = CancelAfter(rec, [cancel EXCEPT !.disabled = TRUE])
    /\ UNCHANGED <<win, initPc, embedded, dom, handlers, scene, imports,
                   importCalls, fnVars>>

(* ----------------------- awaited calls settling ------------------------ *)

\* A run of export id (a new one, when it starts with this run) ends in rec:
\* what it posts and what it restores.
ExportRuns(id, rec) ==
    /\ exports' = IF id \in 1..Len(exports)
                  THEN [exports EXCEPT ![id] = rec]
                  ELSE Append(exports, rec)
    /\ outbox' = outbox \o Posted(rec, id)
    /\ submit' = SubmitAfter(rec, submit)
    /\ cancel' = CancelAfter(rec, cancel)

\* render.offscreen settles; the canvas is set up and toBlob called.
RenderSettles ==
    /\ EventLoopFree
    /\ \E id \in 1..Len(exports) :
          /\ exports[id].pc = "render"
          /\ \E renderOut \in {"pixels", "null", "throws"},
                canvasOut \in {"context", "null", "throws"} :
                ExportRuns(id, captureThumbnailRendered(exports[id], renderOut,
                                                        canvasOut, scene))
    /\ UNCHANGED <<win, initPc, embedded, dom, handlers, scene, imports,
                   importCalls, eventCount, fnVars>>

\* canvas.toBlob calls back; exportPly reads the scene and calls the serializer.
EncodeSettles ==
    /\ EventLoopFree
    /\ \E id \in 1..Len(exports) :
          /\ exports[id].pc = "encode"
          /\ \E blobOut \in {"blob", "null"} :
                ExportRuns(id, captureThumbnailEncoded(exports[id], blobOut, scene))
    /\ UNCHANGED <<win, initPc, embedded, dom, handlers, scene, imports,
                   importCalls, eventCount, fnVars>>

\* serializePlyCompressed settles: written data, no data, or a rejection.
SerializeSettles ==
    /\ EventLoopFree
    /\ \E id \in 1..Len(exports) :
          /\ exports[id].pc = "serialize"
          /\ \E serializeOut \in {"written", "empty", "throws"} :
                ExportRuns(id, exportPlyEnd(exports[id], serializeOut))
    /\ UNCHANGED <<win, initPc, embedded, dom, handlers, scene, imports,
                   importCalls, eventCount, fnVars>>

(* --------------------------- message router ---------------------------- *)

RECURSIVE Repeat(_, _)
Repeat(c, n) == IF n = 0 THEN <<>> ELSE <<c>> \o Repeat(c, n - 1)

\* The k-th file descriptor of a list the parent sends: "m.ply", "mm.ply", ...
FileDescriptor(k) == [filename |-> Repeat("m", k) \o Str_ply]

\* The lists of file descriptors the parent sends, the empty one included.
FileLists == {[k \in 1..n |-> FileDescriptor(k)] : n \in 0..MaxFiles}

\* The messages the parent sends.
InboundMessages ==
    {[type |-> "supersplat:import", files |-> l] : l \in FileLists}
        \cup {[type |-> "supersplat:auto-export", files |-> <<>>],
              [type |-> "other", files |-> <<>>]}

\* The for loop walking the list from its end.
MutImportCallReversed(id, files, k) ==
    [msg |-> id, file |-> files[Len(files) - k + 1]]

\* The for loop arrives at file k of import message id: the host import is
\* invoked and awaited.
ImportCall(id, files, k) ==
    [msg |-> id, file |-> files[k]]

RECURSIVE FilesSent(_)
\* The number of file descriptors of the import messages list l.
FilesSent(l) ==
    IF l = <<>> THEN 0 ELSE Len(Head(l).files) + FilesSent(Tail(l))

\* The listener with a busy flag: an auto-export message is dropped while
\* Submit is disabled.
MutDeliver(m) ==
    /\ m.type = "supersplat:auto-export" => ~submit.disabled
    /\ EventLoopFree
    /\ eventCount < MaxEvents
    /\ FilesSent(imports) + Len(m.files) <= MaxFiles
    /\ eventCount' = eventCount + 1
    /\ IF "window.message" \notin handlers
       THEN UNCHANGED <<outbox, exports, imports, importCalls, submit, cancel>>
       ELSE CASE m.type = "supersplat:import" /\ Len(m.files) > 0 ->
                   /\ imports' = Append(imports, [files |-> m.files, at |-> 1,
                                                  pc |-> "awaiting",
                                                  failed |-> {}])
                   /\ importCalls' = Append(importCalls,
                                            ImportCall(Len(imports) + 1, m.files, 1))
                   /\ UNCHANGED <<outbox, exports, submit, cancel>>
              [] m.type = "supersplat:auto-export" ->
                   /\ \E poseOut \in {"pose", "null", "throws"},
                         fovOut \in {"value", "throws"} :
                         ExportRuns(Len(exports) + 1,
                                    performExport("auto-export", AutoExportOptions,
                                                  poseOut, fovOut, scene))
                   /\ UNCHANGED <<imports, importCalls>>
              [] OTHER ->
                   UNCHANGED <<outbox, exports, imports, importCalls, submit,
                               cancel>>
    /\ UNCHANGED <<win, initPc, embedded, dom, handlers, scene, fnVars>>

\* The window gets a message; with no listener registered nothing handles it.
Deliver(m) ==
    /\ EventLoopFree
    /\ eventCount < MaxEvents
    /\ FilesSent(imports) + Len(m.files) <= MaxFiles
    /\ eventCount' = eventCount + 1
    /\ IF "window.message" \notin handlers
       THEN UNCHANGED <<outbox, exports, imports, importCalls, submit, cancel>>
       ELSE CASE m.type = "supersplat:import" /\ Len(m.files) > 0 ->
                   /\ imports' = Append(imports, [files |-> m.files, at |-> 1,
                                                  pc |-> "awaiting",
                                                  failed |-> {}])
                   /\ importCalls' = Append(importCalls,
                                            ImportCall(Len(imports) + 1, m.files, 1))
                   /\ UNCHANGED <<outbox, exports, submit, cancel>>
              [] m.type = "supersplat:auto-export" ->
                   /\ \E poseOut \in {"pose", "null", "throws"},
                         fovOut \in {"value", "throws"} :
                         ExportRuns(Len(exports) + 1,
                                    performExport("auto-export", AutoExportOptions,
                                                  poseOut, fovOut, scene))
                   /\ UNCHANGED <<imports, importCalls>>
              [] OTHER ->
                   UNCHANGED <<outbox, exports, imports, importCalls, submit,
                               cancel>>
    /\ UNCHANGED <<win, initPc, embedded, dom, handlers, scene, fnVars>>

Receive == \E m \in InboundMessages : Deliver(m)

\* The loop breaks at the first failed import.
MutImportLoop(imp, importOut) ==
    LET last == imp.at = Len(imp.files) \/ importOut = "rejected"
    IN  [imp EXCEPT !.failed = IF importOut = "rejected"
                               THEN @ \cup {imp.at} ELSE @,
                    !.at = IF last THEN @ ELSE @ + 1,
                    !.pc = IF last THEN "done" ELSE "awaiting"]

\* One turn of the for loop of import message imp ends with the awaited
\* import settled: the failure is noted and the loop goes on to the next file.
ImportLoop(imp, importOut) ==
    LET last == imp.at = Len(imp.files)
    IN  [imp EXCEPT !.failed = IF importOut = "rejected"
                               THEN @ \cup {imp.at} ELSE @,
                    !.at = IF last THEN @ ELSE @ + 1,
                    !.pc = IF last THEN "done" ELSE "awaiting"]

\* The awaited host import of the current file settles: a resolved import has
\* added the file's splat to the scene, a rejected one is reported; then the
\* next file's import is invoked.
ImportSettles ==
    /\ EventLoopFree
    /\ \E id \in 1..Len(imports) :
          /\ imports[id].pc = "awaiting"
          /\ \E importOut \in {"resolved", "rejected"} :
                LET imp  == imports[id]
                    next == ImportLoop(imp, importOut)
                IN  /\ scene' = IF importOut = "resolved"
                                THEN Append(scene, [filename |->
                                                imp.files[imp.at].filename])
                                ELSE scene
                    /\ outbox' = IF importOut = "rejected"
                                 THEN Append(outbox, ImportErrorMessage(id))
                                 ELSE outbox
                    /\ imports' = [imports EXCEPT ![id] = next]
                    /\ importCalls' =
                          IF next.pc = "awaiting"
                          THEN Append(importCalls, ImportCall(id, next.files, next.at))
                          ELSE importCalls
    /\ UNCHANGED <<win, initPc, embedded, dom, submit, cancel, handlers,
                   exports, eventCount, fnVars>>

(* --------------------------- specification ----------------------------- *)

Next ==
    \/ InitDetect
    \/ InitControls
    \/ InitHandlers
    \/ InitReady
    \/ CancelClick
    \/ SubmitClick
    \/ RenderSettles
    \/ EncodeSettles
    \/ SerializeSettles
    \/ Receive
    \/ ImportSettles

Spec == Init /\ [][Next]_vars

(* ------------------ file-name derivation on its own -------------------- *)

NameInit ==
    /\ BridgeInit
    /\ fnPc = "stored"
    /\ fnIn \in StoredNames
    /\ fnOut = <<>>

\* The derivation applied to the stored name.
Derive ==
    /\ fnPc = "stored"
    /\ fnOut' = <<ExportFilename(fnIn)>>
    /\ fnPc' = "derived"
    /\ UNCHANGED <<bridgeVars, fnIn>>

\* The derivation applied to its own output.
DeriveAgain ==
    /\ fnPc = "derived"
    /\ fnOut' = Append(fnOut, ExportFilename(fnOut[Len(fnOut)]))
    /\ fnPc' = "rederived"
    /\ UNCHANGED <<bridgeVars, fnIn>>

NameNext == Derive \/ DeriveAgain

NameSpec == NameInit /\ [][NameNext]_vars

(* ------------------------- notions of the claims ----------------------- *)

ControlsIdle ==
    /\ ~submit.disabled
    /\ ~cancel.disabled
    /\ submit.textContent = "Submit"

ControlsProcessing ==
    /\ submit.disabled
    /\ cancel.disabled
    /\ submit.textContent = "Processing..."

ExportIds == 1..Len(exports)

SubmitExportIds == {id \in ExportIds : exports[id].trigger = "submit"}

AutoExportIds == {id \in ExportIds : exports[id].trigger = "auto-export"}

Finished(rec) == rec.pc \in {"done", "failed"}

\* The latest Submit-triggered export, when it is the one named id.
IsLatestSubmit(id) ==
    /\ id \in SubmitExportIds
    /\ \A other \in SubmitExportIds : other <= id

\* The positions of the outbox holding a message of this type from this run.
PostedAt(type, kind, id) ==
    {i \in 1..Len(outbox) :
        /\ outbox[i].type = type
        /\ outbox[i].src = [kind |-> kind, id |-> id]}

\* The positions of the outbox holding a message of this type.
PostedOfType(type) == {i \in 1..Len(outbox) : outbox[i].type = type}

\* The host import calls of import message id, in the order they were made.
RECURSIVE CallsOf(_, _)
CallsOf(log, id) ==
    IF log = <<>> THEN <<>>
    ELSE IF Head(log).msg = id
         THEN <<Head(log).file>> \o CallsOf(Tail(log), id)
         ELSE CallsOf(Tail(log), id)

Invoked(rec, op) == \E i \in 1..Len(rec.calls) : rec.calls[i] = op

\* Export id finishes in this step.
Finishes(id) ==
    /\ id \in 1..Len(exports')
    /\ Finished(exports'[id])
    /\ id \in 1..Len(exports) => ~Finished(exports[id])

(* ------------------------------- C1 ------------------------------------ *)

\* C1 as stated: a finished Submit-triggered export, successful or failed,
\* leaves Submit and Cancel enabled and the label "Submit".
C1_FinishedSubmitIsIdle ==
    \A id \in SubmitExportIds :
        IsLatestSubmit(id) /\ Finished(exports[id]) => ControlsIdle

\* C1 (amended): a Submit-triggered export that failed leaves the controls
\* idle (both buttons enabled, label "Submit"); one that succeeded leaves them
\* in the processing state (both disabled, label "Processing...").
C1_TerminalStateOfSubmit ==
    \A id \in SubmitExportIds :
        IsLatestSubmit(id) =>
            /\ exports[id].pc = "failed" => ControlsIdle
            /\ exports[id].pc = "done" => ControlsProcessing

\* A Submit-triggered export has posted its submit message.
C1_Witness ==
    \E id \in SubmitExportIds :
        /\ exports[id].pc = "done"
        /\ PostedAt("splat-editor-submit", "export", id) # {}
        /\ ControlsProcessing

(* ------------------------------- C2 ------------------------------------ *)

\* C2: the step in which a Submit-triggered export fails, at the camera pose,
\* the thumbnail or the PLY export, ends with Submit and Cancel enabled and
\* the label "Submit".
C2_FailedSubmitRestoresControls ==
    [][\A id \in 1..Len(exports') :
          /\ Finishes(id)
          /\ exports'[id].trigger = "submit"
          /\ exports'[id].failedAt \in {"camera pose", "thumbnail", "PLY"}
          => /\ ~submit'.disabled
             /\ ~cancel'.disabled
             /\ submit'.textContent = "Submit"]_vars

\* Two Submit clicks whose exports failed at different steps, the second one
\* after an await; the controls are idle again.
C2_Witness ==
    /\ ControlsIdle
    /\ \E a, b \in SubmitExportIds :
          /\ exports[a].failedAt = "camera pose"
          /\ exports[b].failedAt \in {"thumbnail", "PLY"}
          /\ PostedAt("splat-editor-error", "export", b) # {}

(* ------------------------------- C3 ------------------------------------ *)

\* C3: the host import is invoked once for every descriptor of an import
\* message, in list order, whether or not earlier ones failed (the calls made
\* so far are the descriptors up to the current one, all of them once the
\* message is handled), and the message's import:error messages are as many
\* as its failed imports.
C3_EveryFileImportedOnce ==
    \A id \in 1..Len(imports) :
        LET imp == imports[id]
        IN  /\ CallsOf(importCalls, id) = SubSeq(imp.files, 1, imp.at)
            /\ imp.pc = "done" => imp.at = Len(imp.files)
            /\ imp.failed \subseteq
                  IF imp.pc = "done" THEN 1..imp.at ELSE 1..(imp.at - 1)
            /\ Cardinality(PostedAt("supersplat:import:error", "import", id))
                  = Cardinality(imp.failed)

\* Three descriptors, the second failed: one error, the first and the third
\* imported.
C3_Witness ==
    \E id \in 1..Len(imports) :
        /\ imports[id].pc = "done"
        /\ Len(imports[id].files) = 3
        /\ imports[id].failed = {2}
        /\ Cardinality(PostedOfType("supersplat:import:error")) = 1
        /\ scene = <<[filename |-> imports[id].files[1].filename],
                     [filename |-> imports[id].files[3].filename]>>

(* ------------------------------- C4 ------------------------------------ *)

ExportOptions == [includeThumbnail : BOOLEAN, includeCameraPose : BOOLEAN]

\* performExport run with these options on a scene of zero splats, whatever
\* the host returns, never gets to the serializer and never ends done.
FailsOnEmptyScene(trigger, options) ==
    \A poseOut \in {"pose", "null", "throws"}, fovOut \in {"value", "throws"} :
        LET started == performExport(trigger, options, poseOut, fovOut, <<>>)
        IN  /\ started.pc \in {"render", "failed"}
            /\ started.pc = "render" =>
                  \A renderOut \in {"pixels", "null", "throws"},
                     canvasOut \in {"context", "null", "throws"} :
                     LET shown == captureThumbnailRendered(started, renderOut,
                                                           canvasOut, <<>>)
                     IN  /\ shown.pc \in {"encode", "failed"}
                         /\ shown.pc = "encode" =>
                               \A blobOut \in {"blob", "null"} :
                                  captureThumbnailEncoded(shown, blobOut, <<>>).pc
                                     = "failed"

\* C4: an export that read a scene of zero splats has failed, without calling
\* the serializer and without posting a submit message, whichever its
\* trigger; and performExport fails on a scene of zero splats for each of the
\* four combinations of includeThumbnail and includeCameraPose.
C4_EmptySceneFailsExport ==
    /\ \A id \in ExportIds :
          exports[id].splats = Some(<<>>) =>
              /\ exports[id].pc = "failed"
              /\ PostedAt("splat-editor-submit", "export", id) = {}
              /\ ~Invoked(exports[id], "serializePlyCompressed")
    /\ \A trigger \in {"submit", "auto-export"}, options \in ExportOptions :
          FailsOnEmptyScene(trigger, options)

\* A Submit-triggered and an auto-export-triggered export both read an empty
\* scene.
C4_Witness ==
    \E a \in SubmitExportIds, b \in AutoExportIds :
        /\ exports[a].splats = Some(<<>>)
        /\ exports[b].splats = Some(<<>>)
        /\ exports[a].pc = "failed"
        /\ exports[b].pc = "failed"

(* ------------------------------- C5 ------------------------------------ *)

\* C5: an auto-export-triggered export never invokes camera.getPose,
\* camera.fov or render.offscreen; when it read a scene of at least one splat
\* and the serializer wrote data, it has posted exactly one submit message,
\* with thumbnail null and cameraPose null.
C5_AutoExportSkipsPoseAndThumbnail ==
    \A id \in AutoExportIds :
        LET rec == exports[id]
            at  == PostedAt("splat-editor-submit", "export", id)
        IN  /\ ~Invoked(rec, "camera.getPose")
            /\ ~Invoked(rec, "camera.fov")
            /\ ~Invoked(rec, "render.offscreen")
            /\ rec.splats # Null /\ rec.splats # Some(<<>>)
                  /\ rec.serialized = "written"
               => /\ Cardinality(at) = 1
                  /\ \A i \in at : /\ outbox[i].data[1].thumbnail = Null
                                   /\ outbox[i].data[1].cameraPose = Null

\* An auto-export has posted its submit message.
C5_Witness ==
    \E id \in AutoExportIds :
        /\ exports[id].pc = "done"
        /\ exports[id].serialized = "written"
        /\ \E i \in PostedAt("splat-editor-submit", "export", id) :
              outbox[i].data[1].plyFile # <<>>

(* ------------------------------- C6 ------------------------------------ *)

\* C6: an export that failed at the camera pose has invoked neither
\* render.offscreen nor scene.splats nor the serializer; one that failed at
\* the thumbnail has invoked neither scene.splats nor the serializer; and no
\* failed export has posted a submit message.
C6_FailureAbortsExport ==
    \A id \in ExportIds :
        LET rec == exports[id]
        IN  /\ rec.failedAt = "camera pose" =>
                  /\ ~Invoked(rec, "render.offscreen")
                  /\ ~Invoked(rec, "scene.splats")
                  /\ ~Invoked(rec, "serializePlyCompressed")
            /\ rec.failedAt = "thumbnail" =>
                  /\ ~Invoked(rec, "scene.splats")
                  /\ ~Invoked(rec, "serializePlyCompressed")
            /\ rec.cameraPose = Null /\ rec.includeCameraPose =>
                  /\ rec.pc = "failed"
                  /\ rec.failedAt = "camera pose"
            /\ rec.pc = "failed" =>
                  /\ rec.failedAt # ""
                  /\ PostedAt("splat-editor-submit", "export", id) = {}

\* One export failed at the camera pose and another at the thumbnail.
C6_Witness ==
    \E a, b \in ExportIds :
        /\ exports[a].failedAt = "camera pose"
        /\ exports[b].failedAt = "thumbnail"
        /\ exports[b].rendered # Null

(* ------------------------------- C7 ------------------------------------ *)

\* A run of the auto-export handler happens in this step.
AutoExportRuns ==
    \E id \in 1..Len(exports') :
        /\ exports'[id].trigger = "auto-export"
        /\ id \in 1..Len(exports) => exports'[id] # exports[id]

\* A Submit-triggered export fails in this step.
SubmitExportFails ==
    \E id \in 1..Len(exports') :
        /\ Finishes(id)
        /\ exports'[id].trigger = "submit"
        /\ exports'[id].pc = "failed"

\* C7: no run of the auto-export handler, successful or failed, changes the
\* disabled flags or the labels of Submit and Cancel, also while a
\* Submit-triggered export is in flight; and a button goes from disabled to
\* enabled only in a step in which a Submit-triggered export fails.
C7_AutoExportLeavesControls ==
    /\ [][AutoExportRuns => submit' = submit /\ cancel' = cancel]_vars
    /\ [][(submit.disabled /\ ~submit'.disabled)
             \/ (cancel.disabled /\ ~cancel'.disabled)
          => SubmitExportFails]_vars

\* An auto-export failed while a Submit-triggered export was in flight, and
\* the controls are still in the processing state.
C7_Witness ==
    /\ ControlsProcessing
    /\ \E a \in AutoExportIds, s \in SubmitExportIds :
          /\ a > s
          /\ exports[a].pc = "failed"
          /\ ~Finished(exports[s])

(* ------------------------------- C8 ------------------------------------ *)

\* C8: in an iframe, the outbox starts with splat-editor-ready and then
\* supersplat:ready, each posted once and never again, both posted with the
\* three handlers registered, and every other message comes after them.
C8_ReadyMessagesOnceAndFirst ==
    /\ Cardinality(PostedOfType("splat-editor-ready")) <= 1
    /\ Cardinality(PostedOfType("supersplat:ready")) <= 1
    /\ outbox # <<>> =>
          /\ handlers = {"cancel.click", "submit.click", "window.message"}
          /\ outbox[1].type = "splat-editor-ready"
    /\ Len(outbox) >= 2 => outbox[2].type = "supersplat:ready"
    /\ initPc = "done" => embedded /\ Len(outbox) >= 2
    /\ initPc # "done" => Len(outbox) <= 2

\* Initialization is over and other messages have followed the ready ones.
C8_Witness ==
    /\ initPc = "done"
    /\ Len(outbox) = 4
    /\ outbox[3].type = "splat-editor-cancel"
    /\ outbox[4].type = "splat-editor-error"

(* ------------------------------- C9 ------------------------------------ *)

\* C9: the detector returned true when self differs from top, false when
\* they are the same, and true when reading top raised; and on its return
\* nothing else has changed: no button, no handler, no message.
C9_EmbeddingDetector ==
    initPc # "start" =>
        /\ win.topAccess = "SecurityError" => embedded
        /\ win.topAccess = "ok" /\ win.self # win.top => embedded
        /\ win.topAccess = "ok" /\ win.self = win.top => ~embedded
        /\ initPc \in {"detected", "skipped"} =>
              /\ dom = <<>>
              /\ submit = NoButton
              /\ cancel = NoButton
              /\ handlers = {}
              /\ outbox = <<>>

\* The detector has returned true after reading top raised.
C9_Witness ==
    /\ initPc = "detected"
    /\ win.topAccess = "SecurityError"
    /\ embedded

(* ------------------------------- C10 ----------------------------------- *)

\* C10: the derivation applied to its own output returns it unchanged, for
\* every stored name; "model.ply" gives "model.compressed.ply", and
\* "model.compressed.ply" gives itself.
C10_FilenameIdempotent ==
    /\ fnPc = "rederived" => fnOut[2] = fnOut[1]
    /\ fnPc # "stored" /\ fnIn = Str_model \o Str_ply
          => fnOut[1] = Str_model \o CompressedExt
    /\ fnPc # "stored" /\ fnIn = Str_model \o CompressedExt
          => fnOut[1] = fnIn

\* "model.ply" derived twice.
C10_Witness ==
    /\ fnPc = "rederived"
    /\ fnIn = Str_model \o Str_ply
    /\ fnOut = <<Str_model \o CompressedExt, Str_model \o CompressedExt>>

(* ------------------------------- C11 ----------------------------------- *)

\* In the call log of rec every call of a comes before every call of b.
CalledBefore(rec, a, b) ==
    \A i, j \in 1..Len(rec.calls) :
        rec.calls[i] = a /\ rec.calls[j] = b => i < j

\* C11: within one export the steps run one after the other: the camera pose
\* is captured before render.offscreen is invoked, the thumbnail is rendered
\* and encoded before the scene is read, the scene is read before it is
\* serialized, and while the render or the encode is awaited the scene has
\* not been read.
C11_StepsInSequence ==
    \A id \in ExportIds :
        LET rec == exports[id]
        IN  /\ CalledBefore(rec, "camera.getPose", "camera.fov")
            /\ CalledBefore(rec, "camera.fov", "render.offscreen")
            /\ CalledBefore(rec, "render.offscreen", "canvas.toBlob")
            /\ CalledBefore(rec, "canvas.toBlob", "scene.splats")
            /\ CalledBefore(rec, "render.offscreen", "scene.splats")
            /\ CalledBefore(rec, "scene.splats", "serializePlyCompressed")
            /\ Invoked(rec, "render.offscreen") /\ rec.includeCameraPose
                  => rec.cameraPose # Null
            /\ Invoked(rec, "scene.splats") /\ rec.includeThumbnail
                  => rec.thumbnail # Null /\ Invoked(rec, "canvas.toBlob")
            /\ rec.pc \in {"render", "encode"} =>
                  /\ ~Invoked(rec, "scene.splats")
                  /\ ~Invoked(rec, "serializePlyCompressed")
                  /\ rec.splats = Null

\* A Submit-triggered export went through all its steps.
C11_Witness ==
    \E id \in SubmitExportIds :
        /\ exports[id].pc = "done"
        /\ exports[id].calls = <<"camera.getPose", "camera.fov",
                                 "render.offscreen", "canvas.toBlob",
                                 "scene.splats", "serializePlyCompressed">>

(* ------------------------------- C12 ----------------------------------- *)

InFlight(rec) == rec.pc \in {"render", "encode", "serialize"}

\* The parent's supersplat:auto-export message.
AutoExportMessage == [type |-> "supersplat:auto-export", files |-> <<>>]

\* C12: the disabled Submit button does not keep the auto-export path out:
\* with a Submit-triggered export in flight and the controls disabled, an
\* auto-export message is still handled (its delivery is enabled whenever
\* the parent may still send a message), and Submit-triggered and
\* auto-export-triggered exports are not limited to one in flight together.
C12_AutoExportNotExcluded ==
    (\E s \in SubmitExportIds : InFlight(exports[s]))
        /\ eventCount < MaxEvents
    => /\ ControlsProcessing
       /\ "window.message" \in handlers
       /\ ENABLED Deliver(AutoExportMessage)

\* A Submit-triggered export and an auto-export started after it have both
\* posted their submit message, the auto-export first: the two were in flight
\* together.
C12_Witness ==
    /\ ControlsProcessing
    /\ \E s \in SubmitExportIds, a \in AutoExportIds :
          /\ s < a
          /\ \E i \in PostedAt("splat-editor-submit", "export", a),
                j \in PostedAt("splat-editor-submit", "export", s) : i < j

(* ------------------------------- C13 ----------------------------------- *)

\* C13: nothing but the awaited call itself ends the wait of a Submit-triggered
\* export.  While its render.offscreen call, its encode or its serialization
\* has not completed, Submit and Cancel are disabled, the label is
\* "Processing...", and the export has posted neither a splat-editor-submit nor
\* a splat-editor-error message, whatever else has happened in between.
C13_PendingSubmitStaysProcessing ==
    \A id \in SubmitExportIds :
        InFlight(exports[id]) =>
            /\ ControlsProcessing
            /\ PostedAt("splat-editor-submit", "export", id) = {}
            /\ PostedAt("splat-editor-error", "export", id) = {}

\* A Submit-triggered export still waiting for render.offscreen after a later
\* auto-export has run to its end.
C13_Witness ==
    \E s \in SubmitExportIds, a \in AutoExportIds :
        /\ s < a
        /\ exports[s].pc = "render"
        /\ exports[a].pc = "done"
        /\ ControlsProcessing

(* ------------------------------- C14 ----------------------------------- *)

\* String.prototype.endsWith
EndsWith(s, t) ==
    /\ Len(s) >= Len(t)
    /\ SubSeq(s, Len(s) - Len(t) + 1, Len(s)) = t

\* C14: for every stored name of the first splat (absent, ending in ".ply" in
\* either case, or ending in something else) the derived file name ends with
\* ".compressed.ply".
C14_FilenameEndsCompressed ==
    fnPc # "stored" => EndsWith(fnOut[1], CompressedExt)

\* The stored name "model.splat" derived: it is returned as it was.
C14_Witness ==
    /\ fnPc = "derived"
    /\ fnIn = Str_model \o Str_splat
    /\ fnOut = <<Str_model \o Str_splat>>

(* ------------------------------- C15 ----------------------------------- *)

\* The buttons exist: createIframeControls has returned.
ControlsCreated == initPc \in {"controls", "listening", "announced", "done"}

\* C15: once the buttons exist, Submit and Cancel have the same disabled flag,
\* Submit is disabled exactly when its label is "Processing..." and enabled
\* exactly when its label is "Submit".
C15_ButtonsAgree ==
    ControlsCreated =>
        /\ submit.disabled = cancel.disabled
        /\ submit.disabled <=> submit.textContent = "Processing..."
        /\ ~submit.disabled <=> submit.textContent = "Submit"

\* The controls back to idle after a failed Submit export, with an import
\* message handled as well.
C15_Witness ==
    /\ ControlsCreated
    /\ ControlsIdle
    /\ imports # <<>>
    /\ \E id \in SubmitExportIds : exports[id].pc = "failed"

(* ------------------------------- C16 ----------------------------------- *)

\* The Submit-triggered exports still running.
SubmitsInFlight == {id \in SubmitExportIds : InFlight(exports[id])}

\* C16: at most one Submit-triggered export is in flight, and while one is, no
\* Submit click is handled (the button is disabled and dispatches none).
C16_OneSubmitInFlight ==
    /\ Cardinality(SubmitsInFlight) <= 1
    /\ SubmitsInFlight # {} => ~ENABLED SubmitClick

\* A second Submit click started an export after the first one had failed.
C16_Witness ==
    \E first, second \in SubmitExportIds :
        /\ first < second
        /\ exports[first].pc = "failed"
        /\ InFlight(exports[second])

(* ------------------------------- C17 ----------------------------------- *)

\* The splat-editor-submit messages that carry a thumbnail.
ThumbnailMessages ==
    {i \in PostedOfType("splat-editor-submit") : outbox[i].data[1].thumbnail # Null}

\* C17: the splats serialized into the PLY data of a splat-editor-submit
\* message are the splats that were in the scene when its thumbnail was
\* rendered.
C17_ThumbnailShowsSerializedScene ==
    \A i \in ThumbnailMessages :
        outbox[i].data[1].thumbnail[1] = outbox[i].data[1].plyFile

\* An import resolved between the render and the scene read of a Submit
\* export: the posted PLY data holds a splat the thumbnail does not show.
C17_Witness ==
    \E i \in ThumbnailMessages :
        Len(outbox[i].data[1].plyFile) > Len(outbox[i].data[1].thumbnail[1])

(* ------------------------------- C18 ----------------------------------- *)

\* The number of messages of this type export id has posted.
OutcomeCount(type, id) == Cardinality(PostedAt(type, "export", id))

\* C18: an export request, from a Submit click or an auto-export message,
\* that has run to its end has posted exactly one outcome message: one
\* splat-editor-submit when it succeeded, one splat-editor-error when it
\* failed, never both and never neither.  One still running has posted none.
C18_OneOutcomeMessage ==
    \A id \in ExportIds :
        /\ exports[id].pc = "done" =>
              /\ OutcomeCount("splat-editor-submit", id) = 1
              /\ OutcomeCount("splat-editor-error", id) = 0
        /\ exports[id].pc = "failed" =>
              /\ OutcomeCount("splat-editor-submit", id) = 0
              /\ OutcomeCount("splat-editor-error", id) = 1
        /\ InFlight(exports[id]) =>
              /\ OutcomeCount("splat-editor-submit", id) = 0
              /\ OutcomeCount("splat-editor-error", id) = 0

\* A succeeded export and a failed one, one of each trigger, each with its
\* outcome message posted.
C18_Witness ==
    \E s \in SubmitExportIds, a \in AutoExportIds :
        /\ {exports[s].pc, exports[a].pc} = {"done", "failed"}
        /\ Cardinality(PostedOfType("splat-editor-submit")) = 1
        /\ Cardinality(PostedOfType("splat-editor-error")) = 1

(* ------------------------------- C19 ----------------------------------- *)

\* An import message with one file.
OneFileImportMessage ==
    [type |-> "supersplat:import", files |-> <<FileDescriptor(1)>>]

\* C19: when the embedding detector has returned false, initialization has
\* ended at once: no button exists, no handler is registered, and nothing has
\* been posted, exported or imported, in every later state.  Import and
\* auto-export messages still reach the window there; they change none of it.
C19_NotEmbeddedDoesNothing ==
    initPc # "start" /\ ~isInIframe(win) =>
        /\ initPc = "skipped"
        /\ dom = <<>>
        /\ submit = NoButton
        /\ cancel = NoButton
        /\ handlers = {}
        /\ outbox = <<>>
        /\ exports = <<>>
        /\ imports = <<>>
        /\ importCalls = <<>>
        /\ scene \in InitialScenes
        /\ eventCount < MaxEvents =>
              /\ ENABLED Deliver(OneFileImportMessage)
              /\ ENABLED Deliver(AutoExportMessage)

\* Outside an iframe, with two messages delivered to the window.
C19_Witness ==
    /\ initPc = "skipped"
    /\ ~embedded
    /\ eventCount >= 2
    /\ outbox = <<>>

(* ------------------------------- C20 ----------------------------------- *)

\* The positions of the host import calls made for import message id.
CallPositions(id) == {i \in 1..Len(importCalls) : importCalls[i].msg = id}

\* C20 as stated: when a file of a later import message is handed to the host
\* import, every file of every earlier message has been handed to it before.
C20_ArrivalOrderAcrossMessages ==
    \A later \in 1..Len(imports) :
        \A j \in CallPositions(later), earlier \in 1..(later - 1) :
            \A k \in 1..Len(imports[earlier].files) :
                \E i \in 1..(j - 1) :
                    importCalls[i] = ImportCall(earlier, imports[earlier].files, k)

\* C20, amended: the files of one import message are handed to the host import
\* in list order, up to the file the loop has arrived at, and the first file
\* of a message is handed over before any file of a later message.
C20_OrderWithinMessage ==
    /\ \A id \in 1..Len(imports) :
          CallsOf(importCalls, id) = SubSeq(imports[id].files, 1, imports[id].at)
    /\ \A earlier, later \in 1..Len(imports) :
          earlier < later =>
              \E i \in CallPositions(earlier) :
                  \A j \in CallPositions(later) : i < j

\* Two messages of two files each, the second arriving while the first file of
\* the first is awaited: the four imports are invoked alternately, so a file
\* of the earlier message follows one of the later and a file of the later
\* follows one of the earlier.
C20_Witness ==
    /\ Len(imports) = 2
    /\ Len(imports[1].files) = 2
    /\ Len(imports[2].files) = 2
    /\ importCalls = <<ImportCall(1, imports[1].files, 1),
                       ImportCall(2, imports[2].files, 1),
                       ImportCall(1, imports[1].files, 2),
                       ImportCall(2, imports[2].files, 2)>>

=============================================================================
